---- MODULE Spec2Model ----
(***************************************************************************)
(* Correlation-matrix analyzer: the correlation engine of                  *)
(* src/utils/statistics.ts (calculatePearsonCorrelation and                *)
(* generateCorrelationMatrix), the configuration stage of                  *)
(* src/components/DataConfig.tsx, the upload of                            *)
(* src/components/FileUpload.tsx and the App session of src/types.ts.      *)
(*                                                                         *)
(* Numbers.  A JavaScript number held in a series is modelled as a tagged  *)
(* record: a finite integer, NaN, or +Infinity.  A read past the end of an *)
(* array gives the tag "undef".  Series values are bounded integers, so    *)
(* every sum and product of the accumulation loop is exact in IEEE         *)
(* doubles.  The value numerator / Math.sqrt(d) is kept as the exact real  *)
(* it denotes: its sign together with numerator^2 / d in lowest terms.     *)
(* For the bounded integers used here the square root of a perfect square  *)
(* and the quotient of two equal doubles are exact, so the values 0, 1 and *)
(* -1 of the model are the doubles 0, 1 and -1.                            *)
(***************************************************************************)
EXTENDS Integers, Sequences, FiniteSets, TLC

VARIABLES
  x, y, result,     \* calculatePearsonCorrelation: arguments and return value
  data,             \* the series handed to generateCorrelationMatrix
  matrix,           \* App: matrix (Null when none is held)
  step,             \* App: step
  parsedData,       \* App: parsedData, the rows of the table (Null when none)
  fileName,         \* App: fileName
  pending,          \* the file reads started by processFile and not completed
  uploadError,      \* FileUpload: error
  hasHeaderRow,     \* DataConfig: hasHeaderRow
  orientation,      \* DataConfig: orientation
  selectedItems,    \* DataConfig: selectedItems, a Set in insertion order
  alert,            \* the alert raised by the last handler
  partial,          \* generateCorrelationMatrix: grid, while its cells are written
  tasks             \* the iterations of the double loop run as tasks: how far each is

session ==
  <<step, parsedData, fileName, pending, uploadError, hasHeaderRow, orientation,
    selectedItems, alert>>

\* the state of a matrix under construction
building == <<partial, tasks>>

vars == <<x, y, result, data, matrix, session, building>>

(* ------------------------------ bounds --------------------------------- *)
\* finite series values of the pair specification are 0 .. MaxVal
MaxVal == 1
\* longest series of the pair specification
MaxLen == 3
\* most series handed to generateCorrelationMatrix
MaxSeries == 3
\* most values, over all series together, handed to generateCorrelationMatrix
MatCells == 6
\* most cells in which a table of the configuration specification differs
\* from BaseTable
MaxEdits == 2
\* most file reads in flight at a time
MaxReads == 2
\* the user toggles the first MaxToggle columns or rows only
MaxToggle == 2

(* ------------------------------ numbers -------------------------------- *)
Num(n) == [t |-> "num", v |-> n]
NaN == [t |-> "nan", v |-> 0]
PosInf == [t |-> "inf", v |-> 0]
Undefined == [t |-> "undef", v |-> 0]

\* Number.isFinite
IsFinite(c) == c.t = "num"

\* x[i] with a missing element read as 0
AtZeroFill(s, i) == IF (i + 1) \in DOMAIN s THEN s[i + 1] ELSE Num(0)

\* x[i] of a JavaScript array, i counted from 0
At(s, i) == IF (i + 1) \in DOMAIN s THEN s[i + 1] ELSE Undefined

Max(a, b) == IF a >= b THEN a ELSE b
Min(a, b) == IF a <= b THEN a ELSE b
Abs(a) == IF a < 0 THEN 0 - a ELSE a

RECURSIVE Gcd(_, _)
Gcd(a, b) == IF b = 0 THEN a ELSE Gcd(b, a % b)

(* results of calculatePearsonCorrelation *)
Null == [t |-> "null"]
NaNResult == [t |-> "nan"]
Infinite(sgn) == [t |-> "inf", sgn |-> sgn]
\* no call has returned yet
Pending == [t |-> "pending"]
\* the real number sgn * sqrt(p / q), p / q in lowest terms
Real(sgn, p, q) == [t |-> "real", sgn |-> sgn, p |-> p, q |-> q]
Zero == Real(0, 0, 1)
One == Real(1, 1, 1)
MinusOne == Real(0 - 1, 1, 1)

Sign(n) == IF n > 0 THEN 1 ELSE IF n < 0 THEN 0 - 1 ELSE 0

\* a product kept as its two factors, so that it is exact whatever its size
IsZeroProduct(d) == d[1] = 0 \/ d[2] = 0
IsNegProduct(d) == (d[1] < 0 /\ d[2] > 0) \/ (d[1] > 0 /\ d[2] < 0)

\* the quotient (a * a) / (d[1] * d[2]) of positive numbers in lowest terms
Lowest(a, d) ==
  LET a1 == a \div Gcd(a, d[1])
      b1 == d[1] \div Gcd(a, d[1])
      a2 == a \div Gcd(a, d[2])
      b2 == d[2] \div Gcd(a, d[2])
  IN [p |-> (a1 \div Gcd(a1, b2)) * (a2 \div Gcd(a2, b1)),
      q |-> (b1 \div Gcd(a2, b1)) * (b2 \div Gcd(a1, b2))]

\* numerator / d without the square root
QuotientNoSqrt(numerator, d) ==
  IF IsZeroProduct(d) THEN NaNResult
  ELSE IF numerator = 0 THEN Zero
  ELSE LET dd == d[1] * d[2]
           g == Gcd(numerator * numerator, dd * dd)
       IN Real(Sign(numerator) * Sign(dd), (numerator * numerator) \div g, (dd * dd) \div g)

\* numerator / Math.sqrt(d): NaN when d < 0 (square root of a negative
\* number) and for 0 / 0, an infinity for n / 0, else the exact quotient
Quotient(numerator, d) ==
  IF IsNegProduct(d) THEN NaNResult
  ELSE IF IsZeroProduct(d)
    THEN (IF numerator = 0 THEN NaNResult ELSE Infinite(Sign(numerator)))
  ELSE IF numerator = 0 THEN Zero
  ELSE LET f == Lowest(Abs(numerator), <<Abs(d[1]), Abs(d[2])>>)
       IN Real(Sign(numerator), f.p, f.q)

(* -------------------------------- cells -------------------------------- *)
\* A cell of the raw table is absent (null or undefined), a number (Num, NaN,
\* PosInf, NegInf) or a string.  A string is the sequence of its characters;
\* the strings of the model hold no decimal point and no exponent, so that
\* every value parseFloat returns is an integer, NaN or an infinity.
Absent == [t |-> "absent", v |-> 0]
NegInf == [t |-> "ninf", v |-> 0]
Str(cs) == [t |-> "str", v |-> cs]

\* typeof cell === 'number', typeof cell === 'string'
IsNumberCell(c) == c.t \in {"num", "nan", "inf", "ninf"}
IsStringCell(c) == c.t = "str"
\* cell === null || cell === undefined
IsMissing(c) == c.t \in {"absent", "undef"}
\* isNaN of a number
IsNaN(v) == v.t = "nan"

Digits == <<"0", "1", "2", "3", "4", "5", "6", "7", "8", "9">>
IsDigit(c) == \E i \in 1 .. 10 : Digits[i] = c
DigitVal(c) == (CHOOSE i \in 1 .. 10 : Digits[i] = c) - 1
InfinityText == <<"I", "n", "f", "i", "n", "i", "t", "y">>

\* cs without its first n characters
Drop(cs, n) == SubSeq(cs, n + 1, Len(cs))

\* parseFloat: leading white space
RECURSIVE SkipSpace(_)
SkipSpace(cs) ==
  IF cs # <<>> /\ cs[1] = " " THEN SkipSpace(Drop(cs, 1)) ELSE cs

\* parseFloat: the number of leading decimal digits
RECURSIVE DigitPrefix(_)
DigitPrefix(cs) ==
  IF cs # <<>> /\ IsDigit(cs[1]) THEN 1 + DigitPrefix(Drop(cs, 1)) ELSE 0

\* parseFloat: the value of the first n characters, all digits
RECURSIVE DigitsValue(_, _)
DigitsValue(cs, n) ==
  IF n = 0 THEN 0 ELSE 10 * DigitsValue(cs, n - 1) + DigitVal(cs[n])

StartsWith(cs, prefix) ==
  Len(cs) >= Len(prefix) /\ SubSeq(cs, 1, Len(prefix)) = prefix

\* parseFloat of a string: white space, a sign, then Infinity or the longest
\* prefix of digits; NaN when there is none
ParseFloat(cs) ==
  LET t == SkipSpace(cs)
      neg == t # <<>> /\ t[1] = "-"
      u == IF t # <<>> /\ t[1] \in {"-", "+"} THEN Drop(t, 1) ELSE t
  IN IF StartsWith(u, InfinityText) THEN (IF neg THEN NegInf ELSE PosInf)
     ELSE IF DigitPrefix(u) = 0 THEN NaN
     ELSE Num((IF neg THEN 0 - 1 ELSE 1) * DigitsValue(u, DigitPrefix(u)))

\* Number.prototype.toString of a non-negative integer
RECURSIVE NatText(_)
NatText(n) ==
  IF n < 10 THEN <<Digits[n + 1]>> ELSE NatText(n \div 10) \o <<Digits[(n % 10) + 1]>>

\* String(cell) of a cell that is not missing
CellText(c) ==
  IF c.t = "str" THEN c.v
  ELSE IF c.t = "nan" THEN <<"N", "a", "N">>
  ELSE IF c.t = "inf" THEN InfinityText
  ELSE IF c.t = "ninf" THEN <<"-">> \o InfinityText
  ELSE IF c.v < 0 THEN <<"-">> \o NatText(0 - c.v)
  ELSE NatText(c.v)

(* ------------------------------ DataConfig ----------------------------- *)
\* program constants of DataConfig.tsx
\* rows scanned for the column count when there is no header row
HeaderScanRows == 10
\* data rows sampled by the automatic selection of columns
SampleRows == 20
\* the threshold 0.3 of the automatic selection, as ThresholdNum / ThresholdDen
ThresholdNum == 3
ThresholdDen == 10
\* columns and rows shown in the preview, the ones that can be toggled
PreviewCols == 12
PreviewRows == 8

Letters == <<"A", "B", "C", "D", "E", "F", "G", "H", "I", "J", "K", "L", "M",
             "N", "O", "P", "Q", "R", "S", "T", "U", "V", "W", "X", "Y", "Z">>
\* String.fromCharCode(65 + i); the characters after Z are not told apart
getColLetter(i) == IF i < 26 THEN Letters[i + 1] ELSE "[.."
\* the synthesized labels of a column and of a row: the word for column, or
\* for row, of the template string, written Col and Row here, a space, and
\* the letter or the number
ColumnLabel(i) == <<"Col", " ", getColLetter(i)>>
RowLabel(n) == <<"Row", " ">> \o NatText(n)

\* rows.slice(from) and rows.slice(0, n)
SliceFrom(rows, from) == SubSeq(rows, from + 1, Len(rows))
SliceTo(rows, n) == SubSeq(rows, 1, Min(n, Len(rows)))

\* the counters of detectHeaderRow after the cells before index i
RECURSIVE HeaderCounts(_, _)
HeaderCounts(firstRow, i) ==
  IF i = 0 THEN [stringCount |-> 0, numberCount |-> 0]
  ELSE LET c == HeaderCounts(firstRow, i - 1)
           cell == firstRow[i]
       IN IF IsMissing(cell) THEN c
          ELSE IF IsStringCell(cell) /\ IsNaN(ParseFloat(cell.v))
            THEN [c EXCEPT !.stringCount = @ + 1]
          ELSE IF IsNumberCell(cell) \/ ~IsNaN(ParseFloat(CellText(cell)))
            THEN [c EXCEPT !.numberCount = @ + 1]
          ELSE c

\* with a strict majority of strings required
detectHeaderRowStrict(rows) ==
  IF Len(rows) = 0 THEN FALSE
  ELSE LET c == HeaderCounts(rows[1], Len(rows[1]))
       IN c.stringCount > 0 /\ c.stringCount > c.numberCount

detectHeaderRow(rows) ==
  IF Len(rows) = 0 THEN FALSE
  ELSE LET c == HeaderCounts(rows[1], Len(rows[1]))
       IN c.stringCount > 0 /\ c.stringCount >= c.numberCount

\* Math.max(...rows.map(r => r.length), 0)
RECURSIVE MaxRowLength(_)
MaxRowLength(rows) ==
  IF rows = <<>> THEN 0 ELSE Max(Len(rows[1]), MaxRowLength(Drop(rows, 1)))

\* String(h ?? '')
HeaderText(h) == IF IsMissing(h) THEN <<>> ELSE CellText(h)

\* the memo { headers, dataRows }
Headers(rows, hasHeader) ==
  IF hasHeader /\ Len(rows) > 0
    THEN [i \in 1 .. Len(rows[1]) |-> HeaderText(rows[1][i])]
  ELSE [i \in 1 .. MaxRowLength(SliceTo(rows, HeaderScanRows)) |-> ColumnLabel(i - 1)]

\* with the header row kept among the data rows
DataRowsAll(rows, hasHeader) == rows

DataRows(rows, hasHeader) ==
  IF hasHeader /\ Len(rows) > 0 THEN SliceFrom(rows, 1) ELSE rows

\* the test of the automatic selection on one cell
CountsAsNumeric(cell) ==
  IsNumberCell(cell) \/ (IsStringCell(cell) /\ ~IsNaN(ParseFloat(cell.v)))

\* numericCount of column colIdx over checkRows
ColumnNumericCount(checkRows, colIdx) ==
  Cardinality({r \in DOMAIN checkRows : CountsAsNumeric(At(checkRows[r], colIdx))})

\* numericCount of a row over row.slice(1)
RowNumericCount(row) ==
  Cardinality({k \in 2 .. Len(row) : CountsAsNumeric(row[k])})

\* the columns branch of the effect, from column colIdx on
RECURSIVE AutoSelectColumns(_, _, _)
AutoSelectColumns(nHeaders, dataRows, colIdx) ==
  IF colIdx >= nHeaders THEN <<>>
  ELSE LET checkRows == SliceTo(dataRows, SampleRows)
           numericCount == ColumnNumericCount(checkRows, colIdx)
       IN (IF Len(checkRows) > 0
              /\ ThresholdDen * numericCount > ThresholdNum * Len(checkRows)
             THEN <<colIdx>> ELSE <<>>)
            \o AutoSelectColumns(nHeaders, dataRows, colIdx + 1)

\* the rows branch of the effect, from row rowIdx on
RECURSIVE AutoSelectRows(_, _)
AutoSelectRows(dataRows, rowIdx) ==
  IF rowIdx >= Len(dataRows) THEN <<>>
  ELSE LET row == dataRows[rowIdx + 1]
       IN (IF Len(row) > 1
              /\ ThresholdDen * RowNumericCount(row) > ThresholdNum * (Len(row) - 1)
             THEN <<rowIdx>> ELSE <<>>)
            \o AutoSelectRows(dataRows, rowIdx + 1)

\* the effect: the new Set, its elements in the order they were added
AutoSelect(rows, hasHeader, orient) ==
  IF orient = "columns"
    THEN AutoSelectColumns(Len(Headers(rows, hasHeader)), DataRows(rows, hasHeader), 0)
  ELSE AutoSelectRows(DataRows(rows, hasHeader), 0)

\* Set.has, Set.delete and Set.add on a Set kept in insertion order
Has(sel, idx) == \E k \in DOMAIN sel : sel[k] = idx
Delete(sel, idx) == SelectSeq(sel, LAMBDA e : e # idx)
Add(sel, idx) == IF Has(sel, idx) THEN sel ELSE Append(sel, idx)

\* the next Set of toggleItem
Toggled(sel, idx) == IF Has(sel, idx) THEN Delete(sel, idx) ELSE Add(sel, idx)

\* new Set(list.map((_, i) => i))
AllIndices(n) == [k \in 1 .. n |-> k - 1]

\* the conversion of one cell by handleAnalyze
CellValue(cell) ==
  IF IsNumberCell(cell) THEN cell
  ELSE IF IsStringCell(cell)
    THEN (IF IsNaN(ParseFloat(cell.v)) THEN NaN ELSE ParseFloat(cell.v))
  ELSE NaN

\* values.filter(v => !isNaN(v)).length
NotNaNCount(values) == Cardinality({k \in DOMAIN values : ~IsNaN(values[k])})

\* headers[colIdx] || the synthesized label of the column
ColumnName(headers, colIdx) ==
  IF (colIdx + 1) \in DOMAIN headers /\ headers[colIdx + 1] # <<>>
    THEN headers[colIdx + 1]
  ELSE ColumnLabel(colIdx)

\* with the cells that are no number left out
ColumnValuesCompressed(dataRows, colIdx) ==
  SelectSeq([r \in 1 .. Len(dataRows) |-> CellValue(At(dataRows[r], colIdx))],
            LAMBDA v : ~IsNaN(v))

\* the values of column colIdx, one for each data row
ColumnValues(dataRows, colIdx) ==
  [r \in 1 .. Len(dataRows) |-> CellValue(At(dataRows[r], colIdx))]

\* String(row[0] ?? the synthesized label of row rowIdx + 1)
RowName(row, rowIdx) ==
  IF IsMissing(At(row, 0)) THEN RowLabel(rowIdx + 1) ELSE CellText(row[1])

\* with the cells that are no number left out
RowValuesCompressed(row) ==
  SelectSeq([k \in 1 .. Len(row) - 1 |-> CellValue(row[k + 1])], LAMBDA v : ~IsNaN(v))

\* the values of a row, from column 1 on
RowValues(row) == [k \in 1 .. Len(row) - 1 |-> CellValue(row[k + 1])]

\* the variables pushed by the columns branch for the selected items from
\* position k on
RECURSIVE ColumnVariables(_, _, _, _)
ColumnVariables(headers, dataRows, sel, k) ==
  IF k > Len(sel) THEN <<>>
  ELSE LET values == ColumnValues(dataRows, sel[k])
       IN (IF NotNaNCount(values) >= 2
             THEN <<[name |-> ColumnName(headers, sel[k]), values |-> values]>>
           ELSE <<>>)
            \o ColumnVariables(headers, dataRows, sel, k + 1)

\* the variables pushed by the rows branch for the selected items from
\* position k on
RECURSIVE RowVariables(_, _, _)
RowVariables(dataRows, sel, k) ==
  IF k > Len(sel) THEN <<>>
  ELSE (IF (sel[k] + 1) \notin DOMAIN dataRows THEN <<>>
        ELSE LET row == dataRows[sel[k] + 1]
                 values == RowValues(row)
             IN IF NotNaNCount(values) >= 2
                  THEN <<[name |-> RowName(row, sel[k]), values |-> values]>>
                ELSE <<>>)
         \o RowVariables(dataRows, sel, k + 1)

\* the list variables of handleAnalyze
Variables(rows, hasHeader, orient, sel) ==
  IF orient = "columns"
    THEN ColumnVariables(Headers(rows, hasHeader), DataRows(rows, hasHeader), sel, 1)
  ELSE RowVariables(DataRows(rows, hasHeader), sel, 1)

(* ---------------------- calculatePearsonCorrelation -------------------- *)
Acc0 == [sumX |-> 0, sumY |-> 0, sumXY |-> 0, sumXSq |-> 0, sumYSq |-> 0,
         validCount |-> 0]

\* the loop body without the Number.isFinite test: NaN and Infinity are
\* accumulated as 0
LoopBodyNoFiniteTest(acc, xi, yi) ==
  IF xi = Undefined \/ yi = Undefined THEN acc
  ELSE [sumX |-> acc.sumX + xi.v,
        sumY |-> acc.sumY + yi.v,
        sumXY |-> acc.sumXY + xi.v * yi.v,
        sumXSq |-> acc.sumXSq + xi.v * xi.v,
        sumYSq |-> acc.sumYSq + yi.v * yi.v,
        validCount |-> acc.validCount + 1]

\* one iteration of the loop at index i
LoopBody(acc, xi, yi) ==
  IF xi = Undefined \/ yi = Undefined THEN acc
  ELSE IF ~IsFinite(xi) \/ ~IsFinite(yi) THEN acc
  ELSE [sumX |-> acc.sumX + xi.v,
        sumY |-> acc.sumY + yi.v,
        sumXY |-> acc.sumXY + xi.v * yi.v,
        sumXSq |-> acc.sumXSq + xi.v * xi.v,
        sumYSq |-> acc.sumYSq + yi.v * yi.v,
        validCount |-> acc.validCount + 1]

\* the loop for (i = 0; i < maxLen; i++)
RECURSIVE Loop(_, _, _, _, _)
Loop(xs, ys, i, maxLen, acc) ==
  IF i >= maxLen THEN acc
  ELSE Loop(xs, ys, i + 1, maxLen, LoopBody(acc, At(xs, i), At(ys, i)))

\* the accumulators after the loop
PearsonSums(xs, ys) == Loop(xs, ys, 0, Max(Len(xs), Len(ys)), Acc0)

\* the numerator with sumX squared in place of sumX * sumY
NumeratorAsym(s) == s.validCount * s.sumXY - s.sumX * s.sumX

Numerator(s) == s.validCount * s.sumXY - s.sumX * s.sumY
\* the argument of Math.sqrt without the factor of y
DenominatorSqXOnly(s) == <<s.validCount * s.sumXSq - s.sumX * s.sumX, 1>>

\* the argument of Math.sqrt, as its two factors
DenominatorSq(s) ==
  <<s.validCount * s.sumXSq - s.sumX * s.sumX,
    s.validCount * s.sumYSq - s.sumY * s.sumY>>

\* without the test denominator === 0
PearsonNoZeroTest(xs, ys) ==
  LET s == PearsonSums(xs, ys)
  IN IF s.validCount < 2 THEN Null
     ELSE Quotient(Numerator(s), DenominatorSq(s))

\* with one valid pair accepted
PearsonOnePair(xs, ys) ==
  LET s == PearsonSums(xs, ys)
  IN IF s.validCount < 1 THEN Null
     ELSE IF IsZeroProduct(DenominatorSq(s)) THEN Zero
     ELSE Quotient(Numerator(s), DenominatorSq(s))

\* with null returned for a zero denominator, as the header comment has it
PearsonNullOnZero(xs, ys) ==
  LET s == PearsonSums(xs, ys)
  IN IF s.validCount < 2 THEN Null
     ELSE IF IsZeroProduct(DenominatorSq(s)) THEN Null
     ELSE Quotient(Numerator(s), DenominatorSq(s))

calculatePearsonCorrelation(xs, ys) ==
  LET s == PearsonSums(xs, ys)
  IN IF s.validCount < 2 THEN Null
     ELSE IF IsZeroProduct(DenominatorSq(s)) THEN Zero
     ELSE Quotient(Numerator(s), DenominatorSq(s))

(* ----------------------- generateCorrelationMatrix --------------------- *)
\* Array(n).fill(null).map(() => Array(n).fill(0))
EmptyGrid(n) == [i \in 0 .. n - 1 |-> [j \in 0 .. n - 1 |-> Zero]]

SetCell(grid, i, j, val) == [grid EXCEPT ![i] = [@ EXCEPT ![j] = val]]

\* the loop body without the mirrored assignment grid[j][i] = val
CellStepNoMirror(grid, d, i, j) ==
  IF i = j THEN SetCell(grid, i, j, One)
  ELSE IF j > i
    THEN LET corr == calculatePearsonCorrelation(d[i + 1].values, d[j + 1].values)
             val == IF corr # Null THEN corr ELSE Zero
         IN SetCell(grid, i, j, val)
  ELSE grid

\* the loop body with the diagonal computed like the upper triangle
CellStepDiagComputed(grid, d, i, j) ==
  IF j >= i
    THEN LET corr == calculatePearsonCorrelation(d[i + 1].values, d[j + 1].values)
             val == IF corr # Null THEN corr ELSE Zero
         IN SetCell(SetCell(grid, i, j, val), j, i, val)
  ELSE grid

\* the loop body without the substitution of 0 for null
CellStepNullKept(grid, d, i, j) ==
  IF i = j THEN SetCell(grid, i, j, One)
  ELSE IF j > i
    THEN LET corr == calculatePearsonCorrelation(d[i + 1].values, d[j + 1].values)
         IN SetCell(SetCell(grid, i, j, corr), j, i, corr)
  ELSE grid

\* the body of the double loop at (i, j)
CellStep(grid, d, i, j) ==
  IF i = j THEN SetCell(grid, i, j, One)
  ELSE IF j > i
    THEN LET corr == calculatePearsonCorrelation(d[i + 1].values, d[j + 1].values)
             val == IF corr # Null THEN corr ELSE Zero
         IN SetCell(SetCell(grid, i, j, val), j, i, val)
  ELSE grid

\* the double loop, cell idx = i * n + j in row-major order
RECURSIVE FillGrid(_, _, _)
FillGrid(grid, d, idx) ==
  LET n == Len(d)
  IN IF idx >= n * n THEN grid
     ELSE FillGrid(CellStep(grid, d, idx \div n, idx % n), d, idx + 1)

generateCorrelationMatrix(d) ==
  [variables |-> [k \in 1 .. Len(d) |-> d[k].name],
   grid |-> FillGrid(EmptyGrid(Len(d)), d, 0)]

(* --------------------------- input domains ----------------------------- *)
SeqsUpTo(S, n) == UNION {[1 .. k -> S] : k \in 0 .. n}

PairValues == {Num(n) : n \in 0 .. MaxVal} \cup {NaN, PosInf}
PairSeries == SeqsUpTo(PairValues, MaxLen)

MatrixValues == {Num(0), Num(1), NaN}
\* lens[1] + ... + lens[k]
RECURSIVE SumTo(_, _)
SumTo(lens, k) == IF k = 0 THEN 0 ELSE lens[k] + SumTo(lens, k - 1)

\* the list of series cut from flat, series k of length lens[k] and named k
Series(flat, lens) ==
  [k \in DOMAIN lens |->
    [name |-> k,
     values |-> SubSeq(flat, SumTo(lens, k - 1) + 1, SumTo(lens, k))]]

(* ----------------- specification of one pair of series ----------------- *)
\* the session before any file is chosen
\* no matrix is under construction
NotBuilding ==
  /\ partial = Null
  /\ tasks = <<>>

SessionIdle ==
  /\ NotBuilding
  /\ step = "upload"
  /\ parsedData = Null
  /\ fileName = <<>>
  /\ pending = {}
  /\ uploadError = "none"
  /\ hasHeaderRow = FALSE
  /\ orientation = "columns"
  /\ selectedItems = <<>>
  /\ alert = "none"

InitPearson ==
  /\ SessionIdle
  /\ x \in PairSeries
  /\ y \in PairSeries
  /\ result = Pending
  /\ data = <<>>
  /\ matrix = Null

CallPearson ==
  /\ result = Pending
  /\ matrix = Null
  /\ data = <<>>
  /\ result' = calculatePearsonCorrelation(x, y)
  /\ UNCHANGED <<building, x, y, data, matrix, session>>

NextPearson == CallPearson

SpecPearson == InitPearson /\ [][NextPearson]_vars

(* -------------------- specification of the matrix ---------------------- *)
InitMatrix ==
  /\ SessionIdle
  /\ x = <<>>
  /\ y = <<>>
  /\ result = Pending
  /\ \E n \in 0 .. MaxSeries :
       \E lens \in [1 .. n -> 0 .. MatCells] :
         /\ SumTo(lens, n) <= MatCells
         /\ \E flat \in [1 .. SumTo(lens, n) -> MatrixValues] :
              data = Series(flat, lens)
  /\ matrix = Null

CallMatrix ==
  /\ matrix = Null
  /\ x = <<>>
  /\ y = <<>>
  /\ matrix' = generateCorrelationMatrix(data)
  /\ UNCHANGED <<building, x, y, result, data, session>>

NextMatrix == CallMatrix

SpecMatrix == InitMatrix /\ [][NextMatrix]_vars

(* ----------------------------- the session ----------------------------- *)
\* ParsedData as built by reader.onload
ParsedData(rows) == [headers |-> <<>>, rows |-> rows]

\* a file being read: its name, whether the read succeeds (reader.onload) or
\* fails (reader.onerror), and the rows of the first sheet when it succeeds
FileRead(name, ok, rows) == [name |-> name, ok |-> ok, rows |-> rows]

\* the state of a DataConfig mounted on rows
Mounted(rows) ==
  /\ hasHeaderRow' = detectHeaderRow(rows)
  /\ orientation' = "columns"
  /\ selectedItems' = AutoSelect(rows, detectHeaderRow(rows), "columns")

\* no DataConfig is mounted
Unmounted ==
  /\ hasHeaderRow' = FALSE
  /\ orientation' = "columns"
  /\ selectedItems' = <<>>

\* FileUpload.processFile: a read is started
ProcessFile(read) ==
  /\ step = "upload"
  /\ read \notin pending
  /\ Cardinality(pending) < MaxReads
  /\ pending' = pending \cup {read}
  /\ uploadError' = "none"
  /\ alert' = "none"
  /\ UNCHANGED <<building, x, y, result, data, matrix, step, parsedData, fileName,
                 hasHeaderRow, orientation, selectedItems>>

\* App.handleDataLoaded, with the mount of DataConfig or, when one is mounted
\* already, the effect that follows the change of rawData
handleDataLoaded(rows, name) ==
  /\ parsedData' = ParsedData(rows)
  /\ fileName' = name
  /\ step' = "config"
  /\ uploadError' = "none"
  /\ IF step = "config"
       THEN /\ selectedItems' = AutoSelect(rows, hasHeaderRow, orientation)
            /\ UNCHANGED <<hasHeaderRow, orientation>>
     ELSE Mounted(rows)
  /\ UNCHANGED <<data, matrix>>

\* setError of the catch clause of reader.onload, for a table without rows,
\* and of reader.onerror, for a read that failed; the state of a FileUpload
\* that is no longer mounted is not kept
FailureShown(read) ==
  IF step # "upload" THEN "none" ELSE IF read.ok THEN "parse" ELSE "read"

\* with the table without rows handed to onDataLoaded
ReaderDoneAnyTable(read) ==
  /\ read \in pending
  /\ pending' = pending \ {read}
  /\ alert' = "none"
  /\ IF read.ok
       THEN handleDataLoaded(read.rows, read.name)
     ELSE /\ uploadError' = FailureShown(read)
          /\ UNCHANGED <<data, matrix, step, parsedData, fileName, hasHeaderRow,
                         orientation, selectedItems>>
  /\ UNCHANGED <<building, x, y, result>>

\* reader.onload and reader.onerror: a read completes
ReaderDone(read) ==
  /\ read \in pending
  /\ pending' = pending \ {read}
  /\ alert' = "none"
  /\ IF read.ok /\ Len(read.rows) # 0
       THEN handleDataLoaded(read.rows, read.name)
     ELSE /\ uploadError' = FailureShown(read)
          /\ UNCHANGED <<data, matrix, step, parsedData, fileName, hasHeaderRow,
                         orientation, selectedItems>>
  /\ UNCHANGED <<building, x, y, result>>

\* the indices the user can click: the preview shows PreviewCols columns and
\* PreviewRows rows
Clickable ==
  IF orientation = "columns"
    THEN 0 .. Min(Min(Len(Headers(parsedData.rows, hasHeaderRow)), PreviewCols), MaxToggle) - 1
  ELSE 0 .. Min(Min(Len(DataRows(parsedData.rows, hasHeaderRow)), PreviewRows), MaxToggle) - 1

toggleItem(idx) ==
  /\ step = "config"
  /\ idx \in Clickable
  /\ selectedItems' = Toggled(selectedItems, idx)
  /\ alert' = "none"
  /\ UNCHANGED <<building, x, y, result, data, matrix, step, parsedData, fileName, pending,
                 uploadError, hasHeaderRow, orientation>>

selectAll ==
  /\ step = "config"
  /\ selectedItems' =
       IF orientation = "columns"
         THEN AllIndices(Len(Headers(parsedData.rows, hasHeaderRow)))
       ELSE AllIndices(Len(DataRows(parsedData.rows, hasHeaderRow)))
  /\ alert' = "none"
  /\ UNCHANGED <<building, x, y, result, data, matrix, step, parsedData, fileName, pending,
                 uploadError, hasHeaderRow, orientation>>

deselectAll ==
  /\ step = "config"
  /\ selectedItems' = <<>>
  /\ alert' = "none"
  /\ UNCHANGED <<building, x, y, result, data, matrix, step, parsedData, fileName, pending,
                 uploadError, hasHeaderRow, orientation>>

\* without the effect that follows the change: the selection is kept
setHasHeaderRowKeep(checked) ==
  /\ step = "config"
  /\ checked # hasHeaderRow
  /\ hasHeaderRow' = checked
  /\ alert' = "none"
  /\ UNCHANGED <<building, x, y, result, data, matrix, step, parsedData, fileName, pending,
                 uploadError, orientation, selectedItems>>

\* the header checkbox, with the effect that follows the change
setHasHeaderRow(checked) ==
  /\ step = "config"
  /\ checked # hasHeaderRow
  /\ hasHeaderRow' = checked
  /\ selectedItems' = AutoSelect(parsedData.rows, checked, orientation)
  /\ alert' = "none"
  /\ UNCHANGED <<building, x, y, result, data, matrix, step, parsedData, fileName, pending,
                 uploadError, orientation>>

\* with the default selection merged into the previous one
setOrientationMerge(orient) ==
  /\ step = "config"
  /\ orient # orientation
  /\ orientation' = orient
  /\ selectedItems' =
       selectedItems \o SelectSeq(AutoSelect(parsedData.rows, hasHeaderRow, orient),
                                  LAMBDA e : ~Has(selectedItems, e))
  /\ alert' = "none"
  /\ UNCHANGED <<building, x, y, result, data, matrix, step, parsedData, fileName, pending,
                 uploadError, hasHeaderRow>>

\* the orientation buttons, with the effect that follows the change
setOrientation(orient) ==
  /\ step = "config"
  /\ orient # orientation
  /\ orientation' = orient
  /\ selectedItems' = AutoSelect(parsedData.rows, hasHeaderRow, orient)
  /\ alert' = "none"
  /\ UNCHANGED <<building, x, y, result, data, matrix, step, parsedData, fileName, pending,
                 uploadError, hasHeaderRow>>

\* App.handleAnalyze, called as onAnalyze
onAnalyze(variables) ==
  /\ data' = variables
  /\ matrix' = generateCorrelationMatrix(variables)
  /\ step' = "result"
  /\ Unmounted

\* without the test variables.length < 2
handleAnalyzeAnyData ==
  /\ step = "config"
  /\ LET variables == Variables(parsedData.rows, hasHeaderRow, orientation, selectedItems)
     IN IF Len(selectedItems) < 2
          THEN /\ alert' = "selection"
               /\ UNCHANGED <<data, matrix, step, hasHeaderRow, orientation, selectedItems>>
        ELSE /\ alert' = "none"
             /\ onAnalyze(variables)
  /\ UNCHANGED <<building, x, y, result, parsedData, fileName, pending, uploadError>>

\* without the test selectedItems.size < 2
handleAnalyzeAnySelection ==
  /\ step = "config"
  /\ LET variables == Variables(parsedData.rows, hasHeaderRow, orientation, selectedItems)
     IN IF Len(variables) < 2
          THEN /\ alert' = "data"
               /\ UNCHANGED <<data, matrix, step, hasHeaderRow, orientation, selectedItems>>
        ELSE /\ alert' = "none"
             /\ onAnalyze(variables)
  /\ UNCHANGED <<building, x, y, result, parsedData, fileName, pending, uploadError>>

\* DataConfig.handleAnalyze
handleAnalyze ==
  /\ step = "config"
  /\ LET variables == Variables(parsedData.rows, hasHeaderRow, orientation, selectedItems)
     IN IF Len(selectedItems) < 2
          THEN /\ alert' = "selection"
               /\ UNCHANGED <<data, matrix, step, hasHeaderRow, orientation, selectedItems>>
        ELSE IF Len(variables) < 2
          THEN /\ alert' = "data"
               /\ UNCHANGED <<data, matrix, step, hasHeaderRow, orientation, selectedItems>>
        ELSE /\ alert' = "none"
             /\ onAnalyze(variables)
  /\ UNCHANGED <<building, x, y, result, parsedData, fileName, pending, uploadError>>

\* without setMatrix(null)
handleResetKeepMatrix ==
  /\ step # "upload"
  /\ parsedData' = Null
  /\ fileName' = <<>>
  /\ step' = "upload"
  /\ uploadError' = "none"
  /\ alert' = "none"
  /\ Unmounted
  /\ UNCHANGED <<building, x, y, result, pending, data, matrix>>

\* App.handleReset
handleReset ==
  /\ step # "upload"
  /\ parsedData' = Null
  /\ fileName' = <<>>
  /\ matrix' = Null
  /\ data' = <<>>
  /\ step' = "upload"
  /\ uploadError' = "none"
  /\ alert' = "none"
  /\ Unmounted
  /\ UNCHANGED <<building, x, y, result, pending>>

\* what the user does in the configuration stage
ConfigStep ==
  \/ \E idx \in 0 .. MaxToggle - 1 : toggleItem(idx)
  \/ selectAll
  \/ deselectAll
  \/ \E checked \in BOOLEAN : setHasHeaderRow(checked)
  \/ \E orient \in {"columns", "rows"} : setOrientation(orient)
  \/ handleAnalyze

(* the files of the session specification *)
Text1(a) == Str(<<a>>)
Revenue == Str(<<"R", "e", "v", "e", "n", "u", "e">>)
Users == Str(<<"U", "s", "e", "r", "s">>)
Region == Str(<<"R", "e", "g", "i", "o", "n">>)
Month == Str(<<"M", "o", "n", "t", "h">>)
Sales == Str(<<"S", "a", "l", "e", "s">>)
Visitors == Str(<<"V", "i", "s", "i", "t", "o", "r", "s">>)
Jan == Str(<<"J", "a", "n">>)
Feb == Str(<<"F", "e", "b">>)
Mar == Str(<<"M", "a", "r">>)

\* the table of the end-to-end scenario
SalesTable ==
  << <<Month, Sales, Visitors>>,
     <<Jan, Num(100), Num(10)>>,
     <<Feb, Num(200), Num(20)>>,
     <<Mar, Num(300), Num(40)>> >>

\* 22 rows without a header: column 0 is numeric in 7 of the first 20 rows,
\* column 1 in 6 of the first 20 rows and in rows 21 and 22
TallTable ==
  [r \in 1 .. 22 |->
    <<IF r <= 7 THEN Num(r) ELSE Text1("x"),
      IF r <= 6 \/ r > 20 THEN Num(r) ELSE Text1("x")>>]

\* the rows of the header examples
HeaderRows ==
  << <<Revenue, Users, Region>>,
     <<Num(10), Num(20), Num(30)>>,
     <<Text1("A"), Num(5), Num(10)>> >>

\* rows of four cells: one without a label and with text among its numbers,
\* one with a label, one whose label is a number
WideTable ==
  << <<Absent, Num(1), Text1("x"), Num(3)>>,
     <<Text1("w"), Num(4), Num(2), Num(1)>>,
     <<Num(7), Num(5), Num(6), Num(8)>> >>

SampleReads ==
  {FileRead(<<"s">>, TRUE, SalesTable),
   FileRead(<<"w">>, TRUE, WideTable),
   FileRead(<<"t">>, TRUE, TallTable),
   FileRead(<<"e">>, TRUE, <<>>),
   FileRead(<<"u">>, FALSE, <<>>)}

(* the tables of the configuration specification *)
\* a header row, one of its names a number, and two data rows, one of their
\* numbers held as text with a unit
BaseTable ==
  << <<Text1("a"), Text1("b"), Text1("7")>>,
     <<Text1("r"), Num(1), Str(<<"2", "x">>)>>,
     <<Text1("s"), Num(2), Num(1)>> >>

\* what an edit puts in a cell; Cut ends the row before the cell
Cut == [t |-> "cut", v |-> 0]
EditCells == {Absent, PosInf, Cut}
BasePositions == {<<r, c>> : r \in 1 .. 3, c \in 1 .. 3}

\* a row up to its first Cut
RECURSIVE UpToCut(_)
UpToCut(row) ==
  IF row = <<>> \/ row[1] = Cut THEN <<>> ELSE <<row[1]>> \o UpToCut(Drop(row, 1))

\* BaseTable with the cells of DOMAIN edit replaced
Edited(edit) ==
  [r \in 1 .. 3 |->
    UpToCut([c \in 1 .. 3 |->
      IF <<r, c>> \in DOMAIN edit THEN edit[<<r, c>>] ELSE BaseTable[r][c]])]

Idle ==
  /\ x = <<>>
  /\ y = <<>>
  /\ result = Pending
  /\ data = <<>>
  /\ matrix = Null

(* ------- specification of the session: the sample files, any reads ------ *)
Init ==
  /\ Idle
  /\ SessionIdle

Next ==
  \/ \E read \in SampleReads : ProcessFile(read)
  \/ \E read \in pending : ReaderDone(read)
  \/ ConfigStep
  \/ handleReset

Spec == Init /\ [][Next]_vars

(* --- specification of the configuration stage: one file, any table ------ *)
InitConfig ==
  /\ Idle
  /\ NotBuilding
  /\ step = "upload"
  /\ parsedData = Null
  /\ fileName = <<>>
  /\ uploadError = "none"
  /\ hasHeaderRow = FALSE
  /\ orientation = "columns"
  /\ selectedItems = <<>>
  /\ alert = "none"
  /\ \E P \in SUBSET BasePositions :
       /\ Cardinality(P) <= MaxEdits
       /\ \E edit \in [P -> EditCells] :
            pending = {FileRead(<<"f">>, TRUE, Edited(edit))}

NextConfig ==
  \/ \E read \in pending : ReaderDone(read)
  \/ ConfigStep
  \/ handleReset

SpecConfig == InitConfig /\ [][NextConfig]_vars

(* ------ specification of the double loop run as tasks in any order ------ *)
\* the value stored for the pair (i, j): the coefficient, 0 for null
PairValue(d, i, j) ==
  LET corr == calculatePearsonCorrelation(d[i + 1].values, d[j + 1].values)
  IN IF corr # Null THEN corr ELSE Zero

\* the iterations of the double loop that write: (i, j) with j >= i
Iterations(n) == {p \in (0 .. n - 1) \X (0 .. n - 1) : p[1] <= p[2]}

\* the series the tasks are run on
TaskSeries ==
  {[name |-> <<"a">>, values |-> <<Num(0), Num(1)>>],
   [name |-> <<"b">>, values |-> <<Num(1), Num(0), NaN>>],
   [name |-> <<"c">>, values |-> <<NaN, Num(1)>>],
   [name |-> <<"d">>, values |-> <<Num(0), Num(1)>>]}

InitTasks ==
  /\ x = <<>>
  /\ y = <<>>
  /\ result = Pending
  /\ matrix = Null
  /\ step = "upload"
  /\ parsedData = Null
  /\ fileName = <<>>
  /\ pending = {}
  /\ uploadError = "none"
  /\ hasHeaderRow = FALSE
  /\ orientation = "columns"
  /\ selectedItems = <<>>
  /\ alert = "none"
  /\ \E n \in 0 .. MaxSeries :
       /\ data \in [1 .. n -> TaskSeries]
       /\ \A i, j \in 1 .. n : i # j => data[i] # data[j]
  /\ partial = EmptyGrid(Len(data))
  /\ tasks = [p \in Iterations(Len(data)) |-> "ready"]

\* the iteration (i, i): grid[i][i] = 1
WriteDiagonal(i) ==
  /\ <<i, i>> \in DOMAIN tasks
  /\ tasks[<<i, i>>] = "ready"
  /\ partial' = SetCell(partial, i, i, One)
  /\ tasks' = [tasks EXCEPT ![<<i, i>>] = "done"]
  /\ UNCHANGED <<x, y, result, data, matrix, session>>

\* the iteration (i, j), i < j, up to grid[i][j] = val
WriteUpper(i, j) ==
  /\ i < j
  /\ <<i, j>> \in DOMAIN tasks
  /\ tasks[<<i, j>>] = "ready"
  /\ partial' = SetCell(partial, i, j, PairValue(data, i, j))
  /\ tasks' = [tasks EXCEPT ![<<i, j>>] = "half"]
  /\ UNCHANGED <<x, y, result, data, matrix, session>>

\* with row j written as a whole, from a fresh row
WriteLowerWholeRow(i, j) ==
  /\ i < j
  /\ <<i, j>> \in DOMAIN tasks
  /\ tasks[<<i, j>>] = "half"
  /\ partial' = [partial EXCEPT ![j] = [EmptyGrid(Len(data))[j] EXCEPT ![i] = PairValue(data, i, j)]]
  /\ tasks' = [tasks EXCEPT ![<<i, j>>] = "done"]
  /\ UNCHANGED <<x, y, result, data, matrix, session>>

\* the iteration (i, j), i < j, from there: grid[j][i] = val
WriteLower(i, j) ==
  /\ i < j
  /\ <<i, j>> \in DOMAIN tasks
  /\ tasks[<<i, j>>] = "half"
  /\ partial' = SetCell(partial, j, i, PairValue(data, i, j))
  /\ tasks' = [tasks EXCEPT ![<<i, j>>] = "done"]
  /\ UNCHANGED <<x, y, result, data, matrix, session>>

\* return { variables, grid }, once every iteration is done
ReturnMatrix ==
  /\ matrix = Null
  /\ \A p \in DOMAIN tasks : tasks[p] = "done"
  /\ matrix' = [variables |-> [k \in 1 .. Len(data) |-> data[k].name], grid |-> partial]
  /\ UNCHANGED <<x, y, result, data, session, building>>

NextTasks ==
  \/ \E i \in 0 .. MaxSeries - 1 : WriteDiagonal(i)
  \/ \E i, j \in 0 .. MaxSeries - 1 : WriteUpper(i, j)
  \/ \E i, j \in 0 .. MaxSeries - 1 : WriteLower(i, j)
  \/ ReturnMatrix

SpecTasks == InitTasks /\ [][NextTasks]_vars

TypeOK ==
  /\ result \in {Pending, Null, NaNResult} \/ result.t \in {"real", "inf"}
  /\ matrix = Null \/ DOMAIN matrix.grid = 0 .. Len(data) - 1

(* ------------------------ reference definitions ------------------------ *)
\* the positions, counted from 1, that hold a finite value on both sides
ValidPositions(xs, ys) ==
  {i \in 1 .. Min(Len(xs), Len(ys)) : IsFinite(xs[i]) /\ IsFinite(ys[i])}

\* the sum of f over the finite set S
RECURSIVE SetSum(_, _)
SetSum(f, S) ==
  IF S = {} THEN 0
  ELSE LET i == CHOOSE k \in S : TRUE IN f[i] + SetSum(f, S \ {i})

\* the sums of the two series restricted to their valid positions
RefSums(xs, ys) ==
  LET P == ValidPositions(xs, ys)
  IN [sumX |-> SetSum([i \in P |-> xs[i].v], P),
      sumY |-> SetSum([i \in P |-> ys[i].v], P),
      sumXY |-> SetSum([i \in P |-> xs[i].v * ys[i].v], P),
      sumXSq |-> SetSum([i \in P |-> xs[i].v * xs[i].v], P),
      sumYSq |-> SetSum([i \in P |-> ys[i].v * ys[i].v], P),
      validCount |-> Cardinality(P)]

\* k * Sum(a^2) - Sum(a)^2 on each side
VarX(s) == s.validCount * s.sumXSq - s.sumX * s.sumX
VarY(s) == s.validCount * s.sumYSq - s.sumY * s.sumY
Cov(s) == s.validCount * s.sumXY - s.sumX * s.sumY

\* the Pearson coefficient of the restricted series
RefPearson(xs, ys) ==
  LET s == RefSums(xs, ys)
  IN IF s.validCount < 2 THEN Null
     ELSE IF VarX(s) = 0 \/ VarY(s) = 0 THEN Zero
     ELSE Real(Sign(Cov(s)),
               (Cov(s) * Cov(s)) \div Gcd(Cov(s) * Cov(s), VarX(s) * VarY(s)),
               (VarX(s) * VarY(s)) \div Gcd(Cov(s) * Cov(s), VarX(s) * VarY(s)))

\* the finite values of a series
FiniteValues(xs) == {xs[i].v : i \in {k \in DOMAIN xs : IsFinite(xs[k])}}
FiniteCount(xs) == Cardinality({k \in DOMAIN xs : IsFinite(xs[k])})
\* a series of zero variance: it has finite values and they are all equal
ConstantSeries(xs) == Cardinality(FiniteValues(xs)) = 1
\* the values of a series at the valid positions of a pair
PairedValues(xs, P) == {xs[i].v : i \in P}

\* a coefficient in [-1, 1]
InRange(r) == r.t = "real" /\ r.p <= r.q

Returned == result # Pending
Built == matrix # Null
Cells == 0 .. Len(data) - 1

(* ------------------------------ the matrix ----------------------------- *)
\* C1: the grid returned by generateCorrelationMatrix is an n x n table that
\* is symmetric, grid[i][j] and grid[j][i] hold the identical value for all
\* i, j, whatever the series hold (NaN placeholders, different lengths).
C1_GridSymmetric ==
  Built =>
    /\ DOMAIN matrix.grid = Cells
    /\ \A i \in Cells :
         /\ DOMAIN matrix.grid[i] = Cells
         /\ \A j \in Cells : matrix.grid[i][j] = matrix.grid[j][i]

\* three series of different lengths, one with a NaN placeholder, and a
\* nonzero coefficient below the diagonal
C1_Witness ==
  /\ Built
  /\ Len(data) = 3
  /\ Len(data[1].values) # Len(data[3].values)
  /\ \E k \in DOMAIN data[3].values : data[3].values[k] = NaN
  /\ matrix.grid[2][0] # Zero
  /\ matrix.grid[2][0] = matrix.grid[0][2]

\* C2: every diagonal entry of the grid is exactly 1, also for a constant
\* series and for a series with fewer than 2 finite values.
C2_DiagonalOne == Built => \A i \in Cells : matrix.grid[i][i] = One

\* a built matrix with a constant series and a series without 2 finite values,
\* for which calculatePearsonCorrelation(s, s) is 0 and null
C2_Witness ==
  /\ Built
  /\ \E i \in Cells :
       /\ ConstantSeries(data[i + 1].values)
       /\ FiniteCount(data[i + 1].values) >= 2
       /\ calculatePearsonCorrelation(data[i + 1].values, data[i + 1].values) = Zero
       /\ matrix.grid[i][i] = One
  /\ \E i \in Cells :
       /\ FiniteCount(data[i + 1].values) < 2
       /\ calculatePearsonCorrelation(data[i + 1].values, data[i + 1].values) = Null
       /\ matrix.grid[i][i] = One

\* C3: every entry of the grid lies in [-1, 1]: for each pair of series the
\* sums of the loop satisfy numerator^2 <= denominator^2, and a pair whose
\* coefficient is undefined is stored as 0.
C3_EntriesInRange ==
  Built =>
    \A i \in Cells : \A j \in Cells :
      /\ InRange(matrix.grid[i][j])
      /\ i < j =>
           LET s == PearsonSums(data[i + 1].values, data[j + 1].values)
           IN /\ Numerator(s) * Numerator(s) <= DenominatorSq(s)[1] * DenominatorSq(s)[2]
              /\ RefSums(data[i + 1].values, data[j + 1].values).validCount < 2
                   => matrix.grid[i][j] = Zero

\* a built matrix that holds a coefficient strictly between 0 and 1, the
\* coefficient -1 and an undefined pair stored as 0
C3_Witness ==
  /\ Built
  /\ \E i, j \in Cells :
       /\ matrix.grid[i][j].sgn = 1
       /\ matrix.grid[i][j].p < matrix.grid[i][j].q
  /\ \E i, j \in Cells :
       /\ i < j
       /\ calculatePearsonCorrelation(data[i + 1].values, data[j + 1].values) = Null
       /\ matrix.grid[i][j] = Zero

(* --------------------------- one pair of series ------------------------ *)
\* C4: calculatePearsonCorrelation(a, b) and calculatePearsonCorrelation(b, a)
\* are the same result, null included.
C4_PearsonSymmetric == Returned => result = calculatePearsonCorrelation(y, x)

\* two different series of different lengths with a NaN placeholder and a
\* negative coefficient
C4_Witness ==
  /\ Returned
  /\ Len(x) # Len(y)
  /\ \E k \in DOMAIN x : x[k] = NaN
  /\ result.t = "real"
  /\ result.sgn = 0 - 1

\* C5: for a series a with at least 2 finite values that are not all equal,
\* calculatePearsonCorrelation(a, a) is 1.
C5_SelfCorrelationOne ==
  (Returned /\ x = y /\ FiniteCount(x) >= 2 /\ Cardinality(FiniteValues(x)) >= 2)
    => result = One

\* a series with a NaN placeholder correlated with itself
C5_Witness ==
  /\ Returned
  /\ x = y
  /\ \E k \in DOMAIN x : x[k] = NaN
  /\ Cardinality(FiniteValues(x)) >= 2
  /\ result = One

C7_OnlyValidPairs ==
  Returned =>
    /\ PearsonSums(x, y) = RefSums(x, y)
    /\ result = RefPearson(x, y)

\* a series of 3 values against one of 2, both positions of the shorter one
\* in use (k = 2) and the skipped value not 0
C7_Witness ==
  /\ Returned
  /\ Len(x) = 3
  /\ Len(y) = 2
  /\ x[3] = Num(1)
  /\ PearsonSums(x, y).validCount = 2
  /\ result = MinusOne

Coercible(cell) == IsStringCell(cell) /\ ~IsNaN(ParseFloat(cell.v))
\* S and N of a row: the cells that are text and not number-like, and the
\* cells that are numbers or number-like text
StringLike(row) ==
  Cardinality({i \in DOMAIN row : IsStringCell(row[i]) /\ ~Coercible(row[i])})
NumberLike(row) ==
  Cardinality({i \in DOMAIN row : IsNumberCell(row[i]) \/ Coercible(row[i])})
\* a DataConfig is mounted by this step
Mounts == step # "config" /\ step' = "config"

FiniteCoercions(checkRows, colIdx) ==
  Cardinality({r \in DOMAIN checkRows : IsFinite(CellValue(At(checkRows[r], colIdx)))})
\* the default selection is computed by this step
Selects ==
  \/ Mounts
  \/ step = "config" /\ step' = "config"
       /\ (orientation' # orientation \/ hasHeaderRow' # hasHeaderRow
             \/ parsedData' # parsedData)

\* C12: whenever the default selection is computed by column, a column is
\* in it exactly when, among the first min(20, number of data rows) data
\* rows, the cells of the column that coerce to a finite number are more
\* than 30% of the sampled rows; NaN, the infinities and absent cells do not
\* count, and with no sampled row no column is selected.
C12_DefaultColumnsFinite ==
  [][Selects /\ orientation' = "columns" =>
       LET dataRows == DataRows(parsedData'.rows, hasHeaderRow')
           checkRows == SliceTo(dataRows, Min(SampleRows, Len(dataRows)))
       IN \A colIdx \in 0 .. Len(Headers(parsedData'.rows, hasHeaderRow')) - 1 :
            Has(selectedItems', colIdx) <=>
              /\ Len(checkRows) > 0
              /\ ThresholdDen * FiniteCoercions(checkRows, colIdx)
                   > ThresholdNum * Len(checkRows)]_vars

\* the members of a Set
Members(sel) == {sel[k] : k \in DOMAIN sel}
\* the default selection of a table under a header decision and an
\* orientation: the columns, or the rows, the effect counts as numeric
DefaultColumns(rows, hasHeader) ==
  LET checkRows == SliceTo(DataRows(rows, hasHeader), SampleRows)
  IN {colIdx \in 0 .. Len(Headers(rows, hasHeader)) - 1 :
        /\ Len(checkRows) > 0
        /\ ThresholdDen * ColumnNumericCount(checkRows, colIdx)
             > ThresholdNum * Len(checkRows)}
DefaultRows(rows, hasHeader) ==
  LET dataRows == DataRows(rows, hasHeader)
  IN {rowIdx \in 0 .. Len(dataRows) - 1 :
        /\ Len(dataRows[rowIdx + 1]) > 1
        /\ ThresholdDen * RowNumericCount(dataRows[rowIdx + 1])
             > ThresholdNum * (Len(dataRows[rowIdx + 1]) - 1)}
DefaultSelection(rows, hasHeader, orient) ==
  IF orient = "columns" THEN DefaultColumns(rows, hasHeader)
  ELSE DefaultRows(rows, hasHeader)

\* C13: a step of the configuration stage that changes the orientation or
\* the header decision leaves as selection the default selection of the new
\* orientation and header decision, whatever was selected before.
C13_SelectionReset ==
  [][/\ step = "config"
     /\ step' = "config"
     /\ (orientation' # orientation \/ hasHeaderRow' # hasHeaderRow)
     => Members(selectedItems')
          = DefaultSelection(parsedData'.rows, hasHeaderRow', orientation')]_vars

\* by row, the selection is the default one and an index of the default
\* selection by column is not in it
C13_Witness ==
  /\ step = "config"
  /\ orientation = "rows"
  /\ Members(selectedItems) = DefaultRows(parsedData.rows, hasHeaderRow)
  /\ DefaultColumns(parsedData.rows, hasHeaderRow)
       \ DefaultRows(parsedData.rows, hasHeaderRow) # {}

\* the elements of the set S of numbers in ascending order
RECURSIVE Ascending(_)
Ascending(S) ==
  IF S = {} THEN <<>>
  ELSE LET least == CHOOSE e \in S : \A o \in S : e <= o
       IN <<least>> \o Ascending(S \ {least})
\* onAnalyze is called by this step
Analyses == step = "config" /\ step' = "result"

\* C14: the series handed to onAnalyze, and the variables of the matrix built
\* from them, are in ascending order of selected index, whatever the order in
\* which the indices were added to the selection.
C14_AscendingOrder ==
  [][Analyses =>
       LET variables == Variables(parsedData.rows, hasHeaderRow, orientation,
                                  Ascending(Members(selectedItems)))
       IN /\ data' = variables
          /\ matrix'.variables = [k \in 1 .. Len(variables) |-> variables[k].name]]_vars

\* the coercion of the cell of a row at column colIdx: the cell when it is a
\* number, the number read from it when it is text that starts with one,
\* and NaN when the row is too short, the cell is absent or it is other text
Coercion(row, colIdx) ==
  IF colIdx + 1 \notin DOMAIN row THEN NaN
  ELSE IF IsNumberCell(row[colIdx + 1]) THEN row[colIdx + 1]
  ELSE IF Coercible(row[colIdx + 1]) THEN ParseFloat(row[colIdx + 1].v)
  ELSE NaN

\* C15: every series of an analysis by column is the column of a selected
\* index, with one value for each data row and in the order of the rows: the
\* coercion of the row's cell at the column, NaN where there is none; the
\* column 10, abc, 30 gives the series 10, NaN, 30.
C15_PositionsKept ==
  [][/\ Analyses /\ orientation = "columns" =>
          LET dataRows == DataRows(parsedData.rows, hasHeaderRow)
          IN \A k \in DOMAIN data' :
               /\ Len(data'[k].values) = Len(dataRows)
               /\ \E colIdx \in Members(selectedItems) :
                    \A r \in 1 .. Len(dataRows) :
                      data'[k].values[r] = Coercion(dataRows[r], colIdx)
     /\ ColumnValues(<< <<Num(10)>>, <<Str(<<"a", "b", "c">>)>>, <<Num(30)>> >>, 0)
          = <<Num(10), NaN, Num(30)>>]_vars

\* a matrix was built from a column whose first row is too short
C15_Witness ==
  /\ step = "result"
  /\ Len(parsedData.rows[1]) < 3
  /\ \E k \in DOMAIN data : data[k].values = <<NaN, Num(1), Num(2)>>

\* the series of the selected index idx, before the filter
SeriesOf(rows, hasHeader, orient, idx) ==
  IF orient = "columns"
    THEN [name |-> ColumnName(Headers(rows, hasHeader), idx),
          values |-> ColumnValues(DataRows(rows, hasHeader), idx)]
  ELSE [name |-> RowName(DataRows(rows, hasHeader)[idx + 1], idx),
        values |-> RowValues(DataRows(rows, hasHeader)[idx + 1])]

\* C16: the series of a selected index is among the series handed to
\* onAnalyze exactly when it has at least 2 finite values; a series of
\* infinities and NaN with at most one finite value is dropped.
C16_FiniteFilter ==
  [][Analyses =>
       \A idx \in Members(selectedItems) :
         LET series == SeriesOf(parsedData.rows, hasHeaderRow, orientation, idx)
         IN (\E k \in DOMAIN data' : data'[k] = series)
              <=> FiniteCount(series.values) >= 2]_vars

\* the series of the selection that pass the filter of handleAnalyze
Surviving ==
  {k \in DOMAIN selectedItems :
     /\ orientation = "rows" => selectedItems[k] < Len(DataRows(parsedData.rows, hasHeaderRow))
     /\ NotNaNCount(SeriesOf(parsedData.rows, hasHeaderRow, orientation,
                             selectedItems[k]).values) >= 2}

C18_InsufficientSelection ==
  [][handleAnalyze /\ Len(selectedItems) < 2 =>
       /\ alert' = "selection"
       /\ step' = "config"
       /\ UNCHANGED <<matrix, data, parsedData, selectedItems>>]_vars

\* the alert was raised for a selection of one index
C18_Witness ==
  /\ step = "config"
  /\ alert = "selection"
  /\ Len(selectedItems) = 1

\* the read of a table without rows completes by this step
EmptyDone ==
  \E read \in pending : ReaderDone(read) /\ read.ok /\ Len(read.rows) = 0

RECURSIVE FracLess(_, _, _, _)
FracLess(a, b, c, d) ==
  IF a \div b # c \div d THEN a \div b < c \div d
  ELSE IF c % d = 0 THEN FALSE
  ELSE IF a % b = 0 THEN TRUE
  ELSE FracLess(d, c % d, b, a % b)

\* the positive coefficient r is k / 10000 when rounded to four decimals:
\* (2k - 1) / 20000 <= r < (2k + 1) / 20000, compared by the squares
RoundsTo(r, k) ==
  /\ r.t = "real"
  /\ r.sgn = 1
  /\ ~FracLess(r.p, r.q, (2 * k - 1) * (2 * k - 1), 20000 * 20000)
  /\ FracLess(r.p, r.q, (2 * k + 1) * (2 * k + 1), 20000 * 20000)

SalesSeries == [name |-> Sales.v, values |-> <<Num(100), Num(200), Num(300)>>]
VisitorsSeries == [name |-> Visitors.v, values |-> <<Num(10), Num(20), Num(40)>>]
\* the analysis of the scenario is carried out by this step
SalesAnalysis ==
  /\ Analyses
  /\ parsedData.rows = SalesTable
  /\ hasHeaderRow
  /\ orientation = "columns"
  /\ Members(selectedItems) = {1, 2}
\* the series of the scenario are handed to onAnalyze
SalesExtracted ==
  /\ Len(data') = 2
  /\ {data'[1], data'[2]} = {SalesSeries, VisitorsSeries}
  /\ Len(matrix'.variables) = 2

\* C20, as stated: the analysis of the Sales and Visitors columns of the
\* table of the scenario extracts the series 100, 200, 300 and 10, 20, 40,
\* and the coefficient of the two is 0.9864 to four decimals.
C20_Coefficient9864 ==
  [][SalesAnalysis =>
       /\ SalesExtracted
       /\ RoundsTo(matrix'.grid[0][1], 9864)
       /\ RoundsTo(matrix'.grid[1][0], 9864)]_vars

\* C20, amended: the same analysis extracts the same series, and the
\* coefficient of the two is 9000 / sqrt(84000000), the square root of
\* 27 / 28, which is 0.9820 to four decimals.
C20_Coefficient9820 ==
  [][SalesAnalysis =>
       /\ SalesExtracted
       /\ matrix'.grid[0][1] = Real(1, 27, 28)
       /\ RoundsTo(matrix'.grid[0][1], 9820)
       /\ RoundsTo(matrix'.grid[1][0], 9820)]_vars

\* the matrix of the scenario is held
C20_Witness ==
  /\ step = "result"
  /\ parsedData.rows = SalesTable
  /\ data = <<SalesSeries, VisitorsSeries>>
  /\ matrix.variables = <<Sales.v, Visitors.v>>
  /\ RoundsTo(matrix.grid[0][1], 9820)

(* ------------------- claims on the matrix and the session ---------------- *)
\* the pairs of series with fewer than 2 valid positions, for which
\* calculatePearsonCorrelation returns null
Degenerate ==
  {p \in Cells \X Cells :
     /\ p[1] < p[2]
     /\ Cardinality(ValidPositions(data[p[1] + 1].values, data[p[2] + 1].values)) < 2}

\* C21: in the matrix built from the series, both cells of every pair of
\* series for which calculatePearsonCorrelation returns null hold 0, and every
\* cell of the grid holds a number: none is null and none is missing.
C21_NullBecomesZero ==
  Built =>
    /\ \A p \in Degenerate :
         /\ calculatePearsonCorrelation(data[p[1] + 1].values, data[p[2] + 1].values) = Null
         /\ matrix.grid[p[1]][p[2]] = Zero
         /\ matrix.grid[p[2]][p[1]] = Zero
    /\ DOMAIN matrix.grid = Cells
    /\ \A i \in Cells :
         /\ DOMAIN matrix.grid[i] = Cells
         /\ \A j \in Cells :
              matrix.grid[i][j] # Null /\ matrix.grid[i][j].t \in {"real", "nan", "inf"}

\* a matrix is built from series of which one pair is degenerate and another
\* pair is not
C21_Witness ==
  /\ Built
  /\ Degenerate # {}
  /\ \E i, j \in Cells : i < j /\ <<i, j>> \notin Degenerate

\* the cells of a row after the first that coerce to a finite number
FiniteRowCoercions(row) ==
  Cardinality({k \in 2 .. Len(row) : IsFinite(CellValue(row[k]))})

\* C22: whenever the default selection is computed by row, a data row is in
\* it exactly when it has more than one cell and, among its cells after the
\* first, those that coerce to a finite number are more than 30% of them.
C22_DefaultRowsFinite ==
  [][Selects /\ orientation' = "rows" =>
       LET dataRows == DataRows(parsedData'.rows, hasHeaderRow')
       IN \A rowIdx \in 0 .. Len(dataRows) - 1 :
            Has(selectedItems', rowIdx) <=>
              /\ Len(dataRows[rowIdx + 1]) > 1
              /\ ThresholdDen * FiniteRowCoercions(dataRows[rowIdx + 1])
                   > ThresholdNum * (Len(dataRows[rowIdx + 1]) - 1)]_vars

\* C23: every series of an analysis by row is a selected data row: its name
\* is the text of the first cell of the row, or the label made of the number
\* of the row when that cell is missing; its values are the coercions of the
\* cells after the first, in order and with NaN kept in place, one less than
\* the row has cells.
C23_RowExtraction ==
  [][Analyses /\ orientation = "rows" =>
       LET dataRows == DataRows(parsedData.rows, hasHeaderRow)
       IN \A k \in DOMAIN data' :
            \E rowIdx \in Members(selectedItems) :
              /\ rowIdx < Len(dataRows)
              /\ LET row == dataRows[rowIdx + 1]
                 IN /\ data'[k].name =
                         IF row = <<>> \/ IsMissing(row[1]) THEN RowLabel(rowIdx + 1)
                         ELSE CellText(row[1])
                    /\ Len(data'[k].values) = Len(row) - 1
                    /\ \A q \in 1 .. Len(row) - 1 :
                         data'[k].values[q] = Coercion(row, q)]_vars

\* a matrix was built from the rows of WideTable: the row without a label is
\* named by its number and keeps NaN where it holds text
C23_Witness ==
  /\ step = "result"
  /\ parsedData.rows = WideTable
  /\ \E k \in DOMAIN data :
       /\ data[k].name = RowLabel(1)
       /\ data[k].values = <<Num(1), NaN, Num(3)>>
  /\ \E k \in DOMAIN data : data[k].name = <<"7">>

\* C24: whatever the order in which the iterations of the double loop are
\* run, and however the two writes of one iteration are interleaved with the
\* writes of the others, the matrix returned is the one of the sequential
\* double loop, and the series are never changed.
C24_OrderIndependent ==
  [][/\ data' = data
     /\ matrix' # Null => matrix' = generateCorrelationMatrix(data')]_vars

\* a matrix of three series was returned, with a degenerate pair in it
C24_Witness ==
  /\ DOMAIN tasks # {}
  /\ matrix # Null
  /\ Len(data) = 3
  /\ Degenerate # {}
  /\ \E i, j \in Cells : matrix.grid[i][j] = MinusOne

(* ------------------- C25: the table of a session ------------------------ *)
\* C25: once a table is loaded and the session is in the config or result
\* stage, parsedData is neither modified nor replaced until handleReset,
\* whatever the configuration operation and however the completions of the
\* reads started in the upload stage interleave.
C25_TableImmutable ==
  [][(step \in {"config", "result"} /\ ~handleReset) => parsedData' = parsedData]_vars

(* ------------------- C26: the indices selected -------------------------- *)
\* the indices that exist under the current orientation and header setting
ValidIndices ==
  IF orientation = "columns"
    THEN 0 .. Len(Headers(parsedData.rows, hasHeaderRow)) - 1
  ELSE 0 .. Len(DataRows(parsedData.rows, hasHeaderRow)) - 1

\* C26: in every state of the configuration stage every selected index is
\* valid for the current orientation and header setting: a column index below
\* the number of header columns under by-column, a data-row index below the
\* number of data rows under by-row.
C26_SelectionValid ==
  step = "config" => Members(selectedItems) \subseteq ValidIndices

\* by row, with the header setting changed from the detected one, every data
\* row is selected, the last one included
C26_Witness ==
  /\ step = "config"
  /\ orientation = "rows"
  /\ hasHeaderRow # detectHeaderRow(parsedData.rows)
  /\ selectedItems # <<>>
  /\ Members(selectedItems) = ValidIndices

(* ------------------- C27: the stages of the session --------------------- *)
\* what each stage holds
StageHolds ==
  /\ step = "upload" => parsedData = Null /\ matrix = Null
  /\ step = "config" => parsedData # Null
  /\ step = "result" => matrix # Null

\* C27: in every state of the session the upload stage holds no table and no
\* matrix, the config stage holds a table and the result stage holds a
\* matrix; handleReset always leads to the upload stage with the table, the
\* file name and the matrix cleared.
C27_StagesAndReset ==
  /\ []StageHolds
  /\ [][handleReset => /\ step' = "upload"
                       /\ parsedData' = Null
                       /\ fileName' = <<>>
                       /\ matrix' = Null]_vars

\* the configuration stage entered again by a read completing after an
\* analysis: the table of that read and the matrix of the analysis are held
C27_Witness ==
  /\ step = "config"
  /\ parsedData # Null
  /\ matrix # Null
  /\ Len(data) >= 2
  /\ pending = {}

====
